---- MODULE Spec2Model ----
(***************************************************************************)
(* Model of the ITunes client of src/ITunesAPI.py.                         *)
(*                                                                         *)
(*  - get_all_official_songs_by_artist: artist resolution, album lookup,   *)
(*    the ThreadPoolExecutor fan-out of fetch_album_tracks, the            *)
(*    as_completed merge and the final sort;                               *)
(*  - the three chart feed parsers;                                        *)
(*  - the sample_thumbnails shapers.                                       *)
(*                                                                         *)
(* Conventions.  A release date is an ISO-8601 string of fixed width, so   *)
(* Python's string comparison orders it like the instant it denotes: the   *)
(* model writes a date as a small natural number and 0 for a missing       *)
(* value (None).  A JSON object is a function from its keys; {} is the     *)
(* function with the empty domain.  An artist id of 0 stands for None.     *)
(* Fields the code only copies (trackName, previewUrl, trackNumber) are    *)
(* left out of the records.                                                *)
(***************************************************************************)
EXTENDS Integers, Sequences, FiniteSets, TLC

VARIABLES
    \* ---- get_all_official_songs_by_artist
    pc,          \* position of the calling thread
    upstream,    \* what the iTunes service holds and how each request may end
    artist_id,   \* local artist_id (0 = None)
    data,        \* local data: the body of the album lookup
    albums,      \* local albums, filtered and sorted
    futures,     \* the futures of future_to_album, in submission order
    started,     \* number of work items the pool's workers have taken (FIFO)
    all_songs,   \* local all_songs
    raisedExc,   \* exception that left the function ("none" when none)
    requests,    \* requests issued: searches, album lookups (numbers) and
                 \* song lookups (the collection ids, in order)
    \* ---- chart feed parsers
    feed,        \* entries of the feed payload the request returns
    limit,       \* the limit argument
    chartOp,     \* parser that ran ("none" before)
    chartOut,    \* its return value
    chartExc,    \* exception that left the parser ("none" when none)
    \* ---- sample_thumbnails shapers
    items,       \* the records the shaper got from the call it wraps
    shapeOp,     \* shaper that ran ("none" before)
    sample_thumbnails  \* its sample_thumbnails

aggVars   == <<pc, upstream, artist_id, data, albums, futures, started, all_songs,
               raisedExc, requests>>
chartVars == <<feed, limit, chartOp, chartOut, chartExc>>
shapeVars == <<items, shapeOp, sample_thumbnails>>
vars      == <<aggVars, chartVars, shapeVars>>

----------------------------------------------------------------------------
(* Bounds of the model. *)
MaxAlbums == 2    \* entries in one album-lookup response
MaxTracks == 2    \* entries in one track-lookup response
Excess    == 1    \* albums beyond max_workers in the pool scenario
MaxFeed   == 3    \* entries in a chart feed payload
MaxLimit  == 2    \* largest limit argument of a chart parser
MaxItems  == 4    \* records handed to a sample_thumbnails shaper

(* ThreadPoolExecutor(max_workers=10) *)
max_workers == 10

----------------------------------------------------------------------------
(* JSON objects and sequences *)

EmptyDict == [k \in {} |-> <<>>]

DictGet(d, k, default) == IF k \in DOMAIN d THEN d[k] ELSE default

Indices(s) == 1..Len(s)

\* Every subsequence of s with at most n elements, as the sets of kept positions.
SubSeqs(s, n) ==
    LET pick(S) == [i \in 1..Cardinality(S) |->
                      s[CHOOSE k \in S : Cardinality({j \in S : j < k}) = i - 1]]
    IN  {pick(S) : S \in {T \in SUBSET Indices(s) : Cardinality(T) <= n}}

\* list.sort(key=..., reverse=True): a stable sort, keys descending.  keys[i]
\* is the sort key of s[i]; the element at output position p is the one with
\* exactly p-1 elements before it in (key descending, input position) order.
SortDesc(s, keys) ==
    LET before(k) == {j \in Indices(s) :
                        keys[j] > keys[k] \/ (keys[j] = keys[k] /\ j < k)}
    IN  [p \in Indices(s) |->
            s[CHOOSE k \in Indices(s) : Cardinality(before(k)) = p - 1]]

----------------------------------------------------------------------------
(* HTTP fetch gateway *)

\* How a request can fail, by the exception requests raises: a network error,
\* a timeout, raise_for_status() on a non-2xx status, response.json() on a
\* body that is not JSON.
FailureKinds == {"ConnectionError", "Timeout", "HTTPError", "JSONDecodeError"}

\* Mutant: `except requests.HTTPError` in place of RequestException.
CatchesOnlyHTTPError(e) == e = "HTTPError"

\* The classes `except requests.RequestException` catches (JSONDecodeError
\* derives from RequestException since requests 2.27).
IsRequestException(e) ==
    e \in {"ConnectionError", "Timeout", "HTTPError", "JSONDecodeError"}

Ok(body)   == [status |-> "ok", body |-> body]
Failed(e)  == [status |-> e, body |-> EmptyDict]
Failures   == {Failed(e) : e \in FailureKinds}

\* _get: the parsed body, {} for a caught failure, or the exception it lets out.
HttpGet(outcome) ==
    IF outcome.status = "ok" THEN [exc |-> "none", data |-> outcome.body]
    ELSE IF IsRequestException(outcome.status)
         THEN [exc |-> "none", data |-> EmptyDict]
         ELSE [exc |-> outcome.status, data |-> EmptyDict]
----------------------------------------------------------------------------
(* The iTunes service.  ServiceAlbums is the list an album lookup holds,    *)
(* ServiceTracks(c) the list the song lookup of collection c holds; the     *)
(* variable upstream says which catalog the service has.  When              *)
(* upstream.faulty, a request may fail in every kind of FailureKinds, and a *)
(* response may hold any part of the list, in order, within the bounds.     *)

AlbumEntry(c, type, owner, date) ==
    [collectionId |-> c, collectionName |-> c, collectionType |-> type,
     artistId |-> owner, releaseDate |-> date]

TrackEntry(c, k, wrapper, owner, date) ==
    [trackId |-> c * 10 + k, wrapperType |-> wrapper, artistId |-> owner,
     releaseDate |-> date]

\* A catalog with an album of the artist's, a compilation and an album of
\* another artist; listed oldest first.
CatalogAlbums ==
    << AlbumEntry(1, "Album", 7, 1), AlbumEntry(2, "Album", 7, 2),
       AlbumEntry(3, "Compilation", 7, 2), AlbumEntry(4, "Album", 9, 1),
       AlbumEntry(5, "Album", 7, 2) >>

\* The entries of collection c: the collection itself, two tracks of the
\* artist, a track credited to another artist, a track without releaseDate.
CatalogTracks(c) ==
    << TrackEntry(c, 1, "collection", 7, 1),
       TrackEntry(c, 2, "track", 7, (c % 3) + 1),
       TrackEntry(c, 3, "track", 7, ((c + 1) % 3) + 1),
       TrackEntry(c, 4, "track", 9, 3),
       TrackEntry(c, 5, "track", 7, 0) >>

\* More albums than the pool has workers, none with a track of the artist's.
PoolAlbums ==
    [c \in 1..(max_workers + Excess) |-> AlbumEntry(c, "Album", 7, 1)]

ServiceAlbums ==
    IF upstream.catalog = "mixed" THEN CatalogAlbums ELSE PoolAlbums

\* The albums of the large catalog hold no entry.
ServiceTracks(c) ==
    IF upstream.catalog = "mixed" THEN CatalogTracks(c) ELSE <<>>

SearchOutcomes ==
    { Ok([results |-> <<>>]), Ok([results |-> <<[artistId |-> 7]>>]),
      Ok([results |-> <<[artistId |-> 0]>>]) }
    \cup (IF upstream.faulty THEN Failures ELSE {})

AlbumOutcomes ==
    IF upstream.faulty
    THEN {Ok([results |-> s]) : s \in SubSeqs(ServiceAlbums, MaxAlbums)}
         \cup Failures
    ELSE {Ok([results |-> ServiceAlbums])}

TrackOutcomes(c) ==
    IF upstream.faulty
    THEN {Ok([results |-> s]) : s \in SubSeqs(ServiceTracks(c), MaxTracks)}
         \cup Failures
    ELSE {Ok([results |-> ServiceTracks(c)])}

----------------------------------------------------------------------------
(* get_artist_id and get_all_official_songs_by_artist *)

\* get_artist_id, on the body _get returned: artistId of the first result.
get_artist_id(body) ==
    LET results == DictGet(body, "results", <<>>)
    IN  IF results # <<>> THEN results[1].artistId ELSE 0

\* The album filter of the list comprehension.
IsOfficialAlbum(r) ==
    r.collectionType = "Album" /\ r.artistId = artist_id

\* albums: the filtered lookup results, sorted newest first.
FilterAlbums(body) ==
    LET kept == SelectSeq(DictGet(body, "results", <<>>), IsOfficialAlbum)
    IN  SortDesc(kept, [i \in Indices(kept) |-> kept[i].releaseDate])

\* Mutant: the track filter without its artistId test.
IsAnyTrack(t) == t.wrapperType = "track"

\* The track filter of fetch_album_tracks.
IsOwnTrack(t) ==
    t.wrapperType = "track" /\ t.artistId = artist_id

\* The record fetch_album_tracks builds of a kept entry.
TrackRecord(album, t) ==
    [track_id |-> t.trackId, album_name |-> album.collectionName,
     release_date |-> t.releaseDate]

\* tracks.sort(...) at the end of fetch_album_tracks.
SortAlbumTracks(tracks) ==
    SortDesc(tracks, [i \in Indices(tracks) |-> tracks[i].release_date])

\* Mutant: tracks_data["results"] in place of tracks_data.get("results", []),
\* which raises KeyError on the {} of a failed lookup.
fetch_album_tracks_subscript(album, outcome) ==
    LET got  == HttpGet(outcome)
        kept == SelectSeq(DictGet(got.data, "results", <<>>), IsOwnTrack)
    IN  IF got.exc # "none"
        THEN [exc |-> got.exc, tracks_data |-> got.data, result |-> <<>>]
        ELSE IF "results" \notin DOMAIN got.data
        THEN [exc |-> "KeyError", tracks_data |-> got.data, result |-> <<>>]
        ELSE IF \E i \in Indices(kept) : kept[i].releaseDate = 0
        THEN [exc |-> "AttributeError", tracks_data |-> got.data, result |-> <<>>]
        ELSE [exc |-> "none", tracks_data |-> got.data,
              result |-> SortAlbumTracks(
                            [i \in Indices(kept) |-> TrackRecord(album, kept[i])])]

\* fetch_album_tracks(album) when its lookup ends as `outcome`: the future's
\* exception or result.  release_iso.replace raises AttributeError on None.
fetch_album_tracks(album, outcome) ==
    LET got  == HttpGet(outcome)
        kept == SelectSeq(DictGet(got.data, "results", <<>>), IsOwnTrack)
    IN  IF got.exc # "none"
        THEN [exc |-> got.exc, tracks_data |-> got.data, result |-> <<>>]
        ELSE IF \E i \in Indices(kept) : kept[i].releaseDate = 0
        THEN [exc |-> "AttributeError", tracks_data |-> got.data, result |-> <<>>]
        ELSE [exc |-> "none", tracks_data |-> got.data,
              result |-> SortAlbumTracks(
                            [i \in Indices(kept) |-> TrackRecord(album, kept[i])])]

\* Mutant: the final sort left out.
FinalSortMissing(songs) == songs

\* all_songs.sort(...) before the return.
FinalSort(songs) ==
    SortDesc(songs, [i \in Indices(songs) |-> songs[i].release_date])

\* Work items a worker thread is running.
Running == {i \in 1..started : futures[i].state = "running"}

\* Mutant: a pool that starts a thread for every work item.
WorkerAlwaysAvailable == TRUE

\* The pool starts a work item only on one of its max_workers threads.
WorkerAvailable == Cardinality(Running) < max_workers

\* Every submitted work item has run and ended.
AllSettled == started = Len(futures) /\ Running = {}

chartIdle == /\ feed = <<>> /\ limit = 0 /\ chartOp = "none"
             /\ chartOut = <<>> /\ chartExc = "none"
shapeIdle == /\ items = <<>> /\ shapeOp = "none" /\ sample_thumbnails = <<>>

aggStart ==
    /\ pc = "resolve" /\ artist_id = 0 /\ data = EmptyDict /\ albums = <<>>
    /\ futures = <<>> /\ started = 0 /\ all_songs = <<>> /\ raisedExc = "none"
    /\ requests = [search |-> 0, albums |-> 0, tracks |-> <<>>]

Init ==
    /\ upstream = [catalog |-> "mixed", faulty |-> TRUE]
    /\ aggStart /\ chartIdle /\ shapeIdle

InitPool ==
    /\ upstream = [catalog |-> "large", faulty |-> FALSE]
    /\ aggStart /\ chartIdle /\ shapeIdle

\* Mutant: the `if not artist_id` return left out.
NotFoundIgnored(id) == FALSE

\* `if not artist_id`: None, and an id of 0.
NotFound(id) == id = 0

\* artist_id = self.get_artist_id(artist_name); if not artist_id: return []
ResolveArtist ==
    /\ pc = "resolve"
    /\ \E outcome \in SearchOutcomes :
          LET got == HttpGet(outcome) IN
          /\ requests' = [requests EXCEPT !.search = @ + 1]
          /\ IF got.exc # "none"
             THEN /\ raisedExc' = got.exc /\ pc' = "raised"
                  /\ UNCHANGED artist_id
             ELSE /\ artist_id' = get_artist_id(got.data)
                  /\ pc' = IF NotFound(artist_id') THEN "done" ELSE "albums"
                  /\ UNCHANGED raisedExc
    /\ UNCHANGED <<upstream, data, albums, futures, started, all_songs>>
    /\ UNCHANGED <<chartVars, shapeVars>>

\* Step 1: the album lookup, the filter and the sort.
FetchAlbums ==
    /\ pc = "albums"
    /\ \E outcome \in AlbumOutcomes :
          LET got == HttpGet(outcome) IN
          /\ requests' = [requests EXCEPT !.albums = @ + 1]
          /\ IF got.exc # "none"
             THEN /\ raisedExc' = got.exc /\ pc' = "raised"
                  /\ UNCHANGED <<data, albums>>
             ELSE /\ data' = got.data
                  /\ albums' = FilterAlbums(got.data)
                  /\ pc' = IF albums' = <<>> THEN "join" ELSE "submit"
                  /\ UNCHANGED raisedExc
    /\ UNCHANGED <<upstream, artist_id, futures, started, all_songs>>
    /\ UNCHANGED <<chartVars, shapeVars>>

\* executor.submit(fetch_album_tracks, album), album by album.
Submit ==
    /\ pc = "submit"
    /\ futures' = Append(futures,
                     [state |-> "pending", exc |-> "none",
                      tracks_data |-> EmptyDict, result |-> <<>>])
    /\ pc' = IF Len(futures') = Len(albums) THEN "collect" ELSE "submit"
    /\ UNCHANGED <<upstream, artist_id, data, albums, started, all_songs,
                   raisedExc, requests>>
    /\ UNCHANGED <<chartVars, shapeVars>>

\* A worker thread takes the oldest queued work item and sends its lookup.
WorkerStart ==
    /\ started < Len(futures)
    /\ WorkerAvailable
    /\ started' = started + 1
    /\ futures' = [futures EXCEPT ![started + 1].state = "running"]
    /\ requests' = [requests EXCEPT
                       !.tracks = Append(@, albums[started + 1].collectionId)]
    /\ UNCHANGED <<pc, upstream, artist_id, data, albums, all_songs, raisedExc>>
    /\ UNCHANGED <<chartVars, shapeVars>>

\* The lookup of a running work item ends; the future gets its result.
WorkerFinish ==
    /\ \E i \in Running :
       \E outcome \in TrackOutcomes(albums[i].collectionId) :
          LET r == fetch_album_tracks(albums[i], outcome) IN
          futures' = [futures EXCEPT ![i] =
                        [state |-> "finished", exc |-> r.exc,
                         tracks_data |-> r.tracks_data, result |-> r.result]]
    /\ UNCHANGED <<pc, upstream, artist_id, data, albums, started, all_songs,
                   raisedExc, requests>>
    /\ UNCHANGED <<chartVars, shapeVars>>

\* Mutant: all_songs = tracks in place of all_songs.extend(tracks).
ExtendOverwrites(songs, tracks) == tracks

\* all_songs.extend(tracks)
Extend(songs, tracks) == songs \o tracks

\* One turn of `for future in as_completed(...)`:
\* all_songs.extend(future.result()), which raises the future's exception.
Collect ==
    /\ pc = "collect"
    /\ \E i \in Indices(futures) :
          /\ futures[i].state = "finished"
          /\ futures' = [futures EXCEPT ![i].state = "collected"]
          /\ IF futures[i].exc # "none"
             THEN /\ raisedExc' = futures[i].exc /\ pc' = "join"
                  /\ UNCHANGED all_songs
             ELSE /\ all_songs' = Extend(all_songs, futures[i].result)
                  /\ pc' = IF \A j \in Indices(futures') : futures'[j].state = "collected"
                           THEN "join" ELSE "collect"
                  /\ UNCHANGED raisedExc
    /\ UNCHANGED <<upstream, artist_id, data, albums, started, requests>>
    /\ UNCHANGED <<chartVars, shapeVars>>

\* The with block is left: shutdown(wait=True) lets every submitted work item
\* run and end.  Then the exception of a future leaves the function, or
\* all_songs is sorted and returned.
JoinAndReturn ==
    /\ pc = "join"
    /\ AllSettled
    /\ IF raisedExc # "none"
       THEN /\ pc' = "raised" /\ UNCHANGED all_songs
       ELSE /\ pc' = "done" /\ all_songs' = FinalSort(all_songs)
    /\ UNCHANGED <<upstream, artist_id, data, albums, futures, started,
                   raisedExc, requests>>
    /\ UNCHANGED <<chartVars, shapeVars>>

NextAgg ==
    \/ ResolveArtist \/ FetchAlbums \/ Submit \/ WorkerStart \/ WorkerFinish
    \/ Collect \/ JoinAndReturn

Spec     == Init /\ [][NextAgg]_vars
SpecPool == InitPool /\ [][NextAgg]_vars

----------------------------------------------------------------------------
(* Properties of get_all_official_songs_by_artist *)

Returned == pc = "done"
Ended    == pc \in {"done", "raised"}

\* The entries of the body future a got.
EntriesOf(a) == DictGet(futures[a].tracks_data, "results", <<>>)

\* Future a got a body with an entry that passes the filter and has no
\* releaseDate: the one input on which fetch_album_tracks raises.
HasBrokenEntry(a) ==
    \E k \in Indices(EntriesOf(a)) :
        IsOwnTrack(EntriesOf(a)[k]) /\ EntriesOf(a)[k].releaseDate = 0

\* The entries of future a that pass the track filter.
KeptOf(a) == SelectSeq(EntriesOf(a), IsOwnTrack)

\* C1: the sequence get_all_official_songs_by_artist returns is sorted by
\* release date descending: each track's release_date is greater than or
\* equal to the next one's, whatever the order the fetches completed in.
C1_ResultSortedDescending ==
    Returned =>
        \A i \in 1..(Len(all_songs) - 1) :
            all_songs[i].release_date >= all_songs[i + 1].release_date

\* A returned result with tracks of two albums and two release dates.
C1_Witness ==
    /\ Returned /\ Len(all_songs) >= 3
    /\ \E i, j \in Indices(all_songs) :
          /\ all_songs[i].album_name # all_songs[j].album_name
          /\ all_songs[i].release_date > all_songs[j].release_date

\* C2: every track of all_songs comes from an entry with wrapperType "track"
\* and the resolved artistId, fetched under an album with collectionType
\* "Album" and the resolved artistId; no entry of another artist appears.
C2_OnlyOwnTracksOfOwnAlbums ==
    \A i \in Indices(all_songs) :
        \E a \in Indices(futures) :
            /\ albums[a].collectionName = all_songs[i].album_name
            /\ albums[a].collectionType = "Album"
            /\ albums[a].artistId = artist_id
            /\ \E k \in Indices(EntriesOf(a)) :
                  /\ EntriesOf(a)[k].trackId = all_songs[i].track_id
                  /\ EntriesOf(a)[k].wrapperType = "track"
                  /\ EntriesOf(a)[k].artistId = artist_id
                  /\ EntriesOf(a)[k].releaseDate = all_songs[i].release_date

\* A returned, non-empty result where the album lookup held an album that is
\* not the artist's and a song lookup held a track of another artist.
C2_Witness ==
    /\ Returned /\ all_songs # <<>>
    /\ \E r \in Indices(DictGet(data, "results", <<>>)) :
          ~IsOfficialAlbum(data.results[r])
    /\ \E a \in Indices(futures) : \E k \in Indices(EntriesOf(a)) :
          EntriesOf(a)[k].wrapperType = "track"
          /\ EntriesOf(a)[k].artistId # artist_id

\* C3: albums whose fetch fails or returns no tracks do not stop the
\* aggregation and contribute no track, and every kept track of the other
\* albums is in the merged result.  (The function raises only when a body
\* holds a kept entry without releaseDate, and never stops before its end.)
C3_FailedAlbumsAreIsolated ==
    /\ raisedExc # "none" => \E a \in Indices(futures) : HasBrokenEntry(a)
    /\ ~Ended => ENABLED NextAgg
    /\ Returned =>
         \A a \in Indices(futures) :
            /\ EntriesOf(a) = <<>> =>
                  \A i \in Indices(all_songs) :
                      all_songs[i].album_name # albums[a].collectionName
            /\ \A k \in Indices(KeptOf(a)) :
                  \E i \in Indices(all_songs) :
                      all_songs[i] = TrackRecord(albums[a], KeptOf(a)[k])

\* A return after one album's lookup failed and another album gave tracks.
C3_Witness ==
    /\ Returned
    /\ \E a, b \in Indices(futures) :
          /\ DOMAIN futures[a].tracks_data = {}
          /\ futures[b].result # <<>>
          /\ \E i \in Indices(all_songs) :
                all_songs[i].album_name = albums[b].collectionName

\* C4: network error, timeout, non-2xx status and invalid JSON of the search,
\* the album lookup or a song lookup never leave _get or
\* get_all_official_songs_by_artist as an exception: the request yields {}.
C4_RequestFailuresAbsorbed ==
    /\ raisedExc \notin FailureKinds
    /\ \A o \in Failures : HttpGet(o) = [exc |-> "none", data |-> EmptyDict]
    /\ (Ended /\ \A a \in Indices(futures) : ~HasBrokenEntry(a)) => Returned

\* The album lookup of a resolved artist failed and [] was returned.
C4_Witness ==
    /\ Returned /\ artist_id # 0
    /\ requests.albums = 1 /\ DOMAIN data = {}
    /\ all_songs = <<>>

\* C5: when the search gives no artist id, the function returns an empty
\* sequence, does not raise, and sends no album or song lookup.
C5_NotFoundReturnsEmpty ==
    (pc # "resolve" /\ raisedExc = "none" /\ artist_id = 0) =>
        /\ Returned /\ all_songs = <<>>
        /\ requests.albums = 0 /\ requests.tracks = <<>>
        /\ futures = <<>>

\* The search was sent and resolved no artist.
C5_Witness ==
    /\ Returned /\ artist_id = 0 /\ requests.search = 1

\* C6: at most 10 song lookups are in flight at any moment, also when more
\* than 10 albums passed the filter; no lookup is sent twice; a queued fetch
\* can start as soon as fewer than 10 run, and while 10 run one of them can
\* finish; and when the function ends every album that passed the filter
\* had its lookup sent exactly once, in queue order.
C6_AtMostTenInFlight ==
    /\ Cardinality(Running) <= 10
    /\ Cardinality({requests.tracks[i] : i \in Indices(requests.tracks)})
           = Len(requests.tracks)
    /\ started < Len(futures) =>
           IF Cardinality(Running) < 10
           THEN ENABLED WorkerStart ELSE ENABLED WorkerFinish
    /\ Ended => requests.tracks =
                   [i \in Indices(albums) |-> albums[i].collectionId]

\* More than 10 albums passed the filter, 10 lookups are running and a
\* queued one waits.
C6_Witness ==
    /\ Len(albums) > 10
    /\ Cardinality(Running) = 10
    /\ started < Len(futures)

----------------------------------------------------------------------------
(* Chart feed parsers.  A feed entry holds im:artist.label (artist), the    *)
(* labels of im:image (images) and link; link is a list of links, or the    *)
(* single link object the feed gives when an entry has one link only.       *)
(* NoneValue stands for Python's None.                                      *)

NoneValue == "None"

Link(type, href) == [type |-> type, href |-> href]

FeedEntries ==
    { [artist |-> "A", images |-> <<"55x55bb", "170x170bb">>, isList |-> TRUE,
       link |-> <<Link("text/html", "h1"), Link("audio/x-m4a", "p1")>>],
      [artist |-> "B", images |-> <<"100x100bb">>, isList |-> TRUE,
       link |-> <<Link("audio/x-m4a", "p2"), Link("audio/x-m4a", "p2b")>>],
      [artist |-> "A", images |-> <<"60x60bb">>, isList |-> TRUE,
       link |-> <<Link("text/html", "h3")>>],
      [artist |-> NoneValue, images |-> <<>>, isList |-> FALSE,
       link |-> <<Link("text/html", "h4")>>] }

\* All sequences over S with at most n elements.
SeqsUpTo(S, n) == UNION {[1..k -> S] : k \in 0..n}

\* The thumbnail of an entry: the last image label, its 100x100bb or
\* 170x170bb token replaced by 600x600bb; None without images.
Thumbnail(entry) ==
    IF entry.images = <<>> THEN NoneValue
    ELSE LET label == entry.images[Len(entry.images)]
         IN  IF label = "100x100bb" THEN "600x600bb"
             ELSE IF label = "170x170bb" THEN "600x600bb"
             ELSE label

\* The loop over links: href of the first link of type audio/x-m4a, or
\* `unset` when the loop assigns nothing (no such link, or link is no list).
PreviewOf(entry, unset) ==
    LET audio == {k \in Indices(entry.link) : entry.link[k].type = "audio/x-m4a"}
    IN  IF entry.isList /\ audio # {}
        THEN entry.link[CHOOSE k \in audio : \A j \in audio : k <= j].href
        ELSE unset

\* get_top_global_songs on the entries of the payload: preview_url is reset
\* to None for each entry.
get_top_global_songs(entries) ==
    [exc |-> "none",
     out |-> [i \in Indices(entries) |->
                [rank |-> i, artist_name |-> entries[i].artist,
                 thumbnail |-> Thumbnail(entries[i]),
                 preview_url |-> PreviewOf(entries[i], NoneValue)]]]

\* get_top_country_songs: preview_url is not reset in the loop.  The local
\* is unbound ("unbound") until a loop turn assigns it, and reading it then
\* raises UnboundLocalError; later it keeps the value of an earlier entry.
RECURSIVE CountryLoop(_, _, _, _)
CountryLoop(entries, i, preview_url, songs) ==
    IF i > Len(entries) THEN [exc |-> "none", out |-> songs]
    ELSE LET now == PreviewOf(entries[i], preview_url)
         IN  IF now = "unbound"
             THEN [exc |-> "UnboundLocalError", out |-> <<>>]
             ELSE CountryLoop(entries, i + 1, now,
                     Append(songs,
                        [rank |-> i, artist_name |-> entries[i].artist,
                         thumbnail |-> Thumbnail(entries[i]),
                         preview_url |-> now]))

get_top_country_songs(entries) == CountryLoop(entries, 1, "unbound", <<>>)

\* get_top_global_artists: entries without a name or with a name seen before
\* are skipped; the loop breaks once len(artists) >= limit, tested after the
\* append.
RECURSIVE ArtistsLoop(_, _, _, _, _)
ArtistsLoop(entries, i, lim, seen_artists, artists) ==
    IF i > Len(entries) THEN artists
    ELSE LET name == entries[i].artist
         IN  IF name = NoneValue \/ name \in seen_artists
             THEN ArtistsLoop(entries, i + 1, lim, seen_artists, artists)
             ELSE LET more == Append(artists,
                                [rank |-> Len(artists) + 1, artist_name |-> name,
                                 thumbnail |-> Thumbnail(entries[i])])
                  IN  IF Len(more) >= lim THEN more
                      ELSE ArtistsLoop(entries, i + 1, lim,
                                       seen_artists \cup {name}, more)

get_top_global_artists(entries, lim) ==
    [exc |-> "none", out |-> ArtistsLoop(entries, 1, lim, {}, <<>>)]

\* How the feed request of a parser may end.
ChartOutcomes == {Ok([feed |-> [entry |-> feed]])} \cup Failures

\* The try block of a parser: the parsed payload; `failed` when the except
\* clause returns [] at once; or the exception it lets out.
ChartGet(outcome) ==
    IF outcome.status = "ok"
    THEN [exc |-> "none", failed |-> FALSE, data |-> outcome.body]
    ELSE IF IsRequestException(outcome.status)
         THEN [exc |-> "none", failed |-> TRUE, data |-> EmptyDict]
         ELSE [exc |-> outcome.status, failed |-> TRUE, data |-> EmptyDict]

\* entries = data.get("feed", {}).get("entry", [])
ChartEntries(body) == DictGet(DictGet(body, "feed", EmptyDict), "entry", <<>>)

aggIdle == aggStart /\ upstream = [catalog |-> "mixed", faulty |-> TRUE]

InitCharts ==
    /\ feed \in SeqsUpTo(FeedEntries, MaxFeed)
    /\ limit \in 1..MaxLimit
    /\ chartOp = "none" /\ chartOut = <<>> /\ chartExc = "none"
    /\ aggIdle /\ shapeIdle

\* A call of a parser whose feed request ended as `got` and whose loop gives
\* `parsed` of the entries.
Parse(op, got, parsed) ==
    /\ chartOp = "none"
    /\ chartOp' = op
    /\ chartOut' = IF got.failed THEN <<>> ELSE parsed.out
    /\ chartExc' = IF got.failed THEN got.exc ELSE parsed.exc
    /\ UNCHANGED <<feed, limit, aggVars, shapeVars>>

GetTopGlobalSongs ==
    \E outcome \in ChartOutcomes :
        LET got == ChartGet(outcome) IN
        Parse("get_top_global_songs", got,
              get_top_global_songs(ChartEntries(got.data)))

GetTopGlobalArtists ==
    \E outcome \in ChartOutcomes :
        LET got == ChartGet(outcome) IN
        Parse("get_top_global_artists", got,
              get_top_global_artists(ChartEntries(got.data), limit))

GetTopCountrySongs ==
    \E outcome \in ChartOutcomes :
        LET got == ChartGet(outcome) IN
        Parse("get_top_country_songs", got,
              get_top_country_songs(ChartEntries(got.data)))

NextCharts == GetTopGlobalSongs \/ GetTopGlobalArtists \/ GetTopCountrySongs

SpecCharts == InitCharts /\ [][NextCharts]_vars

----------------------------------------------------------------------------
(* Properties of the chart feed parsers *)

\* C7: each chart parser returns at most `limit` entries, in feed order,
\* the entry at position i with rank i, whatever the payload holds.
C7_AtMostLimitInFeedOrder ==
    (chartOp # "none" /\ chartExc = "none") =>
        /\ Len(chartOut) <= limit
        /\ \A i \in Indices(chartOut) : chartOut[i].rank = i
        /\ \E pos \in [Indices(chartOut) -> Indices(feed)] :
              /\ \A i \in Indices(chartOut) :
                    chartOut[i].artist_name = feed[pos[i]].artist
              /\ \A i, j \in Indices(chartOut) : i < j => pos[i] < pos[j]

\* C10: each record get_top_country_songs returns has the href of the first
\* audio/x-m4a link of its own entry as preview_url, None when the entry has
\* none, and an entry without such a link does not make the parser fail.
C10_PreviewOfOwnEntry ==
    chartOp = "get_top_country_songs" =>
        /\ chartExc = "none"
        /\ \A i \in Indices(chartOut) :
              chartOut[i].preview_url = PreviewOf(feed[i], NoneValue)

----------------------------------------------------------------------------
(* sample_thumbnails shapers.  items is what the wrapped call returned:     *)
(* all_songs of get_all_official_songs_by_artist, whose records always      *)
(* have a thumbnail, or the records of a chart parser, whose thumbnail may  *)
(* be None.  Tracks of one album share their artwork URL.                   *)

ThumbnailUrls == {"art1", "art2"}

\* Mutant: random.choices, which draws with replacement.
RandomChoices(population, k) == [1..k -> Indices(population)]

\* random.sample(population, k): the position lists it can draw, k distinct
\* positions in any order.
RandomSample(population, k) ==
    {pos \in [1..k -> Indices(population)] :
        \A i, j \in 1..k : pos[i] = pos[j] => i = j}

\* The samples a shaper can produce of the thumbnails it samples from:
\* random.sample of 3 when there are 3 or more, all of them otherwise.
SampleThumbnails(all_thumbnails) ==
    IF Len(all_thumbnails) >= 3
    THEN {[i \in 1..3 |-> all_thumbnails[pos[i]]] :
             pos \in RandomSample(all_thumbnails, 3)}
    ELSE {all_thumbnails}

\* [song["thumbnail"] for song in all_songs]
SongThumbnails(songs) == [i \in Indices(songs) |-> songs[i].thumbnail]

\* [x["thumbnail"] for x in records if x["thumbnail"]]
TruthyThumbnails(records) ==
    LET kept == SelectSeq(records, LAMBDA x : x.thumbnail # NoneValue)
    IN  [i \in Indices(kept) |-> kept[i].thumbnail]

ChartShapers ==
    {"get_top_global_artists_with_thumbnails",
     "get_top_global_songs_with_thumbnails",
     "get_top_country_songs_with_thumbnails"}

InitShape ==
    /\ items \in SeqsUpTo({[thumbnail |-> u] : u \in ThumbnailUrls \cup {NoneValue}},
                          MaxItems)
    /\ shapeOp = "none" /\ sample_thumbnails = <<>>
    /\ aggIdle /\ chartIdle

\* get_artist_songs_with_sample_thumbnails, on the songs it got.
GetArtistSongsWithSampleThumbnails ==
    /\ shapeOp = "none"
    /\ \A i \in Indices(items) : items[i].thumbnail # NoneValue
    /\ shapeOp' = "get_artist_songs_with_sample_thumbnails"
    /\ sample_thumbnails' \in SampleThumbnails(SongThumbnails(items))
    /\ UNCHANGED <<items, aggVars, chartVars>>

\* The three chart shapers, on the records their parser returned.
GetTopWithThumbnails ==
    /\ shapeOp = "none"
    /\ \E op \in ChartShapers : shapeOp' = op
    /\ sample_thumbnails' \in SampleThumbnails(TruthyThumbnails(items))
    /\ UNCHANGED <<items, aggVars, chartVars>>

NextShape == GetArtistSongsWithSampleThumbnails \/ GetTopWithThumbnails

SpecShape == InitShape /\ [][NextShape]_vars

----------------------------------------------------------------------------
(* Properties of the shapers *)

\* The thumbnails the shaper that ran sampled from.
Available ==
    IF shapeOp = "get_artist_songs_with_sample_thumbnails"
    THEN SongThumbnails(items) ELSE TruthyThumbnails(items)

Min(a, b) == IF a <= b THEN a ELSE b

Occurrences(s, u) == Cardinality({i \in Indices(s) : s[i] = u})

====
